---- MODULE Spec2Model ----
(***************************************************************************)
(* Model of Profolio.  Spec: the technique recommendation engine           *)
(* (src/src/lib/uxTechniques.ts), the static catalog allTechniques, the    *)
(* requirement passed to getFilteredTechniques and the value it returns.   *)
(* SpecCalls: the pages that call the engine side by side.  SpecData and   *)
(* SpecSession: the data-access layer (supabaseClient), its session and    *)
(* tables, and the pages that read and write through it.                   *)
(***************************************************************************)
EXTENDS Integers, Sequences, FiniteSets, TLC

(***************************************************************************)
(* Bounds of the model.                                                    *)
(***************************************************************************)
\* longest catalog explored
MaxCatalog == 2

\* most saved_results rows explored
MaxSaved == 2

\* most remixed_techniques rows explored
MaxRemixed == 1

\* most presses of Save & Next explored in one visit of the requirements wizard
MaxSaves == 2

\* most rows written to the three tables together, where all functions are explored
MaxRows == 2

(***************************************************************************)
(* JavaScript values.  An optional value is a record: defined = FALSE is   *)
(* undefined/null.  Strings that are compared ignoring case are sequences  *)
(* of character codes; tags, names, slugs and stages are TLA+ strings.     *)
(***************************************************************************)
Some(v) == [defined |-> TRUE, val |-> v]
Undefined == [defined |-> FALSE, val |-> <<>>]
Null == [defined |-> FALSE, val |-> FALSE]

str_New == <<78, 101, 119>>
str_Old == <<79, 108, 100>>
str_new == <<110, 101, 119>>
str_old == <<111, 108, 100>>

\* String.prototype.toLowerCase on ASCII: 'A'..'Z' (65..90) move to 'a'..'z'
toLowerCase(s) == [i \in 1..Len(s) |-> IF s[i] \in 65..90 THEN s[i] + 32 ELSE s[i]]

\* Array.prototype.includes
includes(arr, x) == \E i \in 1..Len(arr) : arr[i] = x

(***************************************************************************)
(* The fixed stages and the shape of the data.                             *)
(***************************************************************************)
allStages == <<"Discover", "Define", "Design", "Develop", "Deliver">>
earlyStages == <<"Discover", "Define", "Design">>
StageKeys == {allStages[i] : i \in 1..Len(allStages)}

\* a stage value of a catalog entry outside the five fixed stages
OtherStage == "Research"
StageValues == StageKeys \cup {OtherStage}

Names == {"User Interviews", "Card Sorting"}
Slugs == {"user-interviews", "card-sorting"}

\* tag arrays a catalog entry may carry, and tag arrays a requirement may select
TechArrays(a, b) == {Undefined, Some(<<>>), Some(<<a>>), Some(<<a, b>>)}
ReqArrays(a, b) == {Undefined, Some(<<>>), Some(<<b>>), Some(<<b, a>>)}

ProjectTypeArrays ==
    {Undefined, Some(<<>>), Some(<<str_New>>), Some(<<str_Old>>), Some(<<str_New, str_Old>>)}
UserBaseArrays ==
    {Undefined, Some(<<>>), Some(<<"new">>), Some(<<"existing">>), Some(<<"new", "existing">>)}

\* the requirement with every optional field unset
UnsetRequirement ==
    [output_type |-> Undefined, outcome |-> Undefined, device_type |-> Undefined,
     project_type |-> Undefined, existing_users |-> Null]

\* a catalog entry that restricts nothing
DefaultTechnique ==
    [name |-> "User Interviews", slug |-> "user-interviews", stage |-> "Discover",
     outcomes |-> Some(<<>>), output_types |-> Some(<<>>), device_types |-> Some(<<>>),
     project_types |-> Some(<<str_New, str_Old>>),
     user_base |-> Some(<<"new", "existing">>)]

\* interface TechniqueDetail: the values each field of a catalog entry is drawn from
TechniqueValues ==
    [name |-> Names, slug |-> Slugs, stage |-> StageValues,
     outcomes |-> TechArrays("Qualitative", "Quantitative"),
     output_types |-> TechArrays("Mobile App", "Desktop Software"),
     device_types |-> TechArrays("Mobile", "Desktop"),
     project_types |-> ProjectTypeArrays,
     user_base |-> UserBaseArrays]

\* type Requirement: the values of the fields getFilteredTechniques reads
RequirementValues ==
    [output_type |-> ReqArrays("Mobile App", "Desktop Software"),
     outcome |-> ReqArrays("Qualitative", "Quantitative"),
     device_type |-> ReqArrays("Mobile", "Desktop"),
     project_type |-> {Undefined, Some(str_new), Some(str_old)},
     existing_users |-> {Null, Some(FALSE), Some(TRUE)}]

\* a catalog of DefaultTechnique entries with one field of one entry replaced
WithCell(catalog, k, f, v) == [catalog EXCEPT ![k][f] = v]

OneCellChanged(catalogs) ==
    UNION {UNION {{WithCell(c, k, f, v) : v \in TechniqueValues[f]} :
                  k \in 1..Len(c), f \in DOMAIN DefaultTechnique} : c \in catalogs}

\* the catalogs of a length: every pair of fields, of one entry or of two, takes every
\* pair of values, the other fields being those of DefaultTechnique
CatalogsOfLength(len) ==
    IF len = 0 THEN {<<>>}
    ELSE OneCellChanged(OneCellChanged({[k \in 1..len |-> DefaultTechnique]}))

\* the catalogs explored: uxTechniqueDetails.json is data, any of these can be loaded
Catalogs == UNION {CatalogsOfLength(len) : len \in 0..MaxCatalog}

OneFieldChanged(requirements) ==
    UNION {UNION {{[r EXCEPT ![f] = v] : v \in RequirementValues[f]} :
                  f \in DOMAIN UnsetRequirement} : r \in requirements}

\* the requirements explored: every pair of fields takes every pair of values, the
\* other fields being unset
Requirements == OneFieldChanged(OneFieldChanged({UnsetRequirement}))

(***************************************************************************)
(* getFilteredTechniques                                                   *)
(***************************************************************************)
\* requirement.project_type ? ... : requirement.existing_users ? ...
truthyString(o) == o.defined /\ Len(o.val) > 0
truthyBoolean(o) == o.defined /\ o.val

\* an empty selection of the requirement is not let through, only an absent one
doArraysIntersect_emptySelectionStrict(reqArray, techArray) ==
    IF ~reqArray.defined THEN TRUE
    ELSE IF ~techArray.defined \/ Len(techArray.val) = 0 THEN TRUE
    ELSE \E i \in 1..Len(reqArray.val) : includes(techArray.val, reqArray.val[i])

\* every selected tag must be one of the entry's tags (every in place of some)
doArraysIntersect_every(reqArray, techArray) ==
    IF ~reqArray.defined \/ Len(reqArray.val) = 0 THEN TRUE
    ELSE IF ~techArray.defined \/ Len(techArray.val) = 0 THEN TRUE
    ELSE \A i \in 1..Len(reqArray.val) : includes(techArray.val, reqArray.val[i])

doArraysIntersect(reqArray, techArray) ==
    IF ~reqArray.defined \/ Len(reqArray.val) = 0 THEN TRUE
    ELSE IF ~techArray.defined \/ Len(techArray.val) = 0 THEN TRUE
    ELSE \E i \in 1..Len(reqArray.val) : includes(techArray.val, reqArray.val[i])

\* tech.project_types.some(...) on an entry without project_types is a TypeError
projectTypeThrows(requirement, tech) ==
    truthyString(requirement.project_type) /\ ~tech.project_types.defined

\* a requirement without project_type matches no entry
projectTypeMatch_unsetRejects(requirement, tech) ==
    IF truthyString(requirement.project_type)
    THEN \E i \in 1..Len(tech.project_types.val) :
            toLowerCase(tech.project_types.val[i]) = toLowerCase(requirement.project_type.val)
    ELSE FALSE

\* the comparison without toLowerCase
projectTypeMatch_caseSensitive(requirement, tech) ==
    IF truthyString(requirement.project_type)
    THEN \E i \in 1..Len(tech.project_types.val) :
            tech.project_types.val[i] = requirement.project_type.val
    ELSE TRUE

projectTypeMatch(requirement, tech) ==
    IF truthyString(requirement.project_type)
    THEN \E i \in 1..Len(tech.project_types.val) :
            toLowerCase(tech.project_types.val[i]) = toLowerCase(requirement.project_type.val)
    ELSE TRUE

\* only an explicit false gives "new"
userContext_nullIsExisting(requirement) ==
    IF requirement.existing_users.defined /\ ~requirement.existing_users.val
    THEN "new" ELSE "existing"

userContext(requirement) ==
    IF truthyBoolean(requirement.existing_users) THEN "existing" ELSE "new"

userBaseMatch(requirement, tech) ==
    IF tech.user_base.defined THEN includes(tech.user_base.val, userContext(requirement))
    ELSE TRUE

outcomeMatch(requirement, tech) == doArraysIntersect(requirement.outcome, tech.outcomes)

deviceTypeMatch(requirement, tech) == doArraysIntersect(requirement.device_type, tech.device_types)

\* Design is not among the early stages
isEarlyStage_withoutDesign(tech) == includes(<<"Discover", "Define">>, tech.stage)

isEarlyStage(tech) == includes(earlyStages, tech.stage)

\* no stage is gated by output type
outputTypeMatch_neverGates(requirement, tech) == TRUE

outputTypeMatch(requirement, tech) ==
    isEarlyStage(tech) \/ doArraysIntersect(requirement.output_type, tech.output_types)

\* the condition without its device-type conjunct
techniquePasses_noDeviceType(requirement, tech) ==
    /\ projectTypeMatch(requirement, tech)
    /\ outcomeMatch(requirement, tech)
    /\ outputTypeMatch(requirement, tech)
    /\ userBaseMatch(requirement, tech)

\* the condition of the if statement that guards the push
techniquePasses(requirement, tech) ==
    /\ projectTypeMatch(requirement, tech)
    /\ outcomeMatch(requirement, tech)
    /\ deviceTypeMatch(requirement, tech)
    /\ outputTypeMatch(requirement, tech)
    /\ userBaseMatch(requirement, tech)

\* a find that never reports the name as present
findName_never(list, name) == FALSE

\* a find that compares slugs where the code compares names
findName_bySlug(list, name) ==
    \E i \in 1..Len(list) : list[i].slug = name

\* recommendations[tech.stage].find(t => t.name === tech.name)
findName(list, name) == \E i \in 1..Len(list) : list[i].name = name

\* the object literal recommendations starts as
emptyRecommendations == [s \in StageKeys |-> <<>>]

\* a body that puts the new entry at the head of the list
visitTechnique_unshift(requirement, tech, recommendations) ==
    IF /\ techniquePasses(requirement, tech)
       /\ tech.stage \in DOMAIN recommendations
       /\ ~findName(recommendations[tech.stage], tech.name)
    THEN [recommendations EXCEPT
            ![tech.stage] = <<[name |-> tech.name, slug |-> tech.slug]>> \o @]
    ELSE recommendations

\* a body in which a later entry of the same name replaces the one listed
visitTechnique_lastWins(requirement, tech, recommendations) ==
    IF /\ techniquePasses(requirement, tech)
       /\ tech.stage \in DOMAIN recommendations
    THEN IF findName(recommendations[tech.stage], tech.name)
         THEN [recommendations EXCEPT
                 ![tech.stage] = [i \in 1..Len(@) |->
                     IF @[i].name = tech.name
                     THEN [name |-> tech.name, slug |-> tech.slug] ELSE @[i]]]
         ELSE [recommendations EXCEPT
                 ![tech.stage] = Append(@, [name |-> tech.name, slug |-> tech.slug])]
    ELSE recommendations

\* a body that looks for the name in the lists of all stages
visitTechnique_anyStage(requirement, tech, recommendations) ==
    IF /\ techniquePasses(requirement, tech)
       /\ tech.stage \in DOMAIN recommendations
       /\ \A s \in DOMAIN recommendations : ~findName(recommendations[s], tech.name)
    THEN [recommendations EXCEPT
            ![tech.stage] = Append(@, [name |-> tech.name, slug |-> tech.slug])]
    ELSE recommendations

\* a body without the test of recommendations[tech.stage]: an unknown stage gets a key
visitTechnique_anyKey(requirement, tech, recommendations) ==
    IF techniquePasses(requirement, tech)
    THEN IF tech.stage \in DOMAIN recommendations
         THEN IF findName(recommendations[tech.stage], tech.name)
              THEN recommendations
              ELSE [recommendations EXCEPT
                      ![tech.stage] = Append(@, [name |-> tech.name, slug |-> tech.slug])]
         ELSE [s \in (DOMAIN recommendations) \cup {tech.stage} |->
                  IF s = tech.stage THEN <<[name |-> tech.name, slug |-> tech.slug]>>
                  ELSE recommendations[s]]
    ELSE recommendations

\* the body of allTechniques.forEach for one entry
visitTechnique(requirement, tech, recommendations) ==
    IF /\ techniquePasses(requirement, tech)
       /\ tech.stage \in DOMAIN recommendations
       /\ ~findName(recommendations[tech.stage], tech.name)
    THEN [recommendations EXCEPT
            ![tech.stage] = Append(@, [name |-> tech.name, slug |-> tech.slug])]
    ELSE recommendations

\* allTechniques.forEach from entry i on; an exception ends the call
RECURSIVE forEachTechnique(_, _, _, _)
forEachTechnique(catalog, i, requirement, recommendations) ==
    IF i > Len(catalog) THEN [threw |-> FALSE, value |-> recommendations]
    ELSE IF projectTypeThrows(requirement, catalog[i])
         THEN [threw |-> TRUE, value |-> recommendations]
         ELSE forEachTechnique(catalog, i + 1, requirement,
                               visitTechnique(requirement, catalog[i], recommendations))

\* allStages.forEach: a missing stage key is added with an empty list
ensureStages(recommendations) ==
    [s \in (DOMAIN recommendations) \cup StageKeys |->
        IF s \in DOMAIN recommendations THEN recommendations[s] ELSE <<>>]

\* what a call that threw leaves the caller with
NoValue == [s \in {} |-> <<>>]

\* getFilteredTechniques(requirement) over the catalog; req is Undefined for a null argument
getFilteredTechniques(catalog, req) ==
    IF ~req.defined THEN [status |-> "returned", value |-> emptyRecommendations]
    ELSE LET walked == forEachTechnique(catalog, 1, req.val, emptyRecommendations)
         IN  IF walked.threw THEN [status |-> "threw", value |-> NoValue]
             ELSE [status |-> "returned", value |-> ensureStages(walked.value)]

(***************************************************************************)
(* State: the catalog, and the argument and outcome of the last call.      *)
(* The pages that call the engine side by side, and the objects the calls  *)
(* allocate, are the state of SpecCalls further down.                      *)
(***************************************************************************)
VARIABLES allTechniques, requirement, result, pages, objects,
          session, requirementsTable, saved_results, tabs,
          remixed_techniques, wizard, callback

vars == <<allTechniques, requirement, result, pages, objects,
          session, requirementsTable, saved_results, tabs,
          remixed_techniques, wizard, callback>>
callVars == <<pages, objects>>
dataVars == <<session, requirementsTable, saved_results, tabs>>
moreVars == <<remixed_techniques, wizard, callback>>

\* the two pages that call getFilteredTechniques
Contexts == {"ResultPage", "ProjectDetailPage"}

\* the accounts, and the value of the session when nobody is signed in
Users == {"u1", "u2"}
NoUser == "anon"

\* the browser tabs the application runs in
Tabs == {"t1", "t2"}

NullRequirement == [defined |-> FALSE, val |-> UnsetRequirement]

\* a page before it is opened: useState(null) and useState({}), nothing in flight
ClosedPage ==
    [phase |-> "closed", response |-> NullRequirement, requirement |-> NullRequirement,
     stageTechniques |-> 0, edited |-> FALSE]
NoPages == pages = [c \in Contexts |-> ClosedPage] /\ objects = <<>>

\* the id of no saved_results row, and a tab that shows no page
NoSaved == [requirement_id |-> "", user_id |-> "", copy |-> 0]
\* tid and pid are the remixed technique and the project a page is about (0 and
\* NoSaved: none)
ClosedTab ==
    [page |-> "none", op |-> "none", pc |-> "idle", user |-> NoUser,
     rid |-> "", sid |-> NoSaved, requirement |-> {}, projects |-> {}, error |-> FALSE,
     tid |-> 0, pid |-> NoSaved, techniques |-> {}]

\* const sections: the six sections of the requirements wizard
sections == 0..5

\* useState(null) for savingSectionIndex
NoSection == -1

\* a Save & Next of a section that is not running
NoSave == [pc |-> "idle", requirementId |-> "", user |-> NoUser]

\* the requirements wizard before it is opened: requirementId null, nothing saved,
\* nothing in flight
ClosedWizard ==
    [open |-> FALSE, isLoading |-> TRUE, requirementId |-> "",
     savingSectionIndex |-> NoSection, completedSections |-> {},
     saves |-> [i \in sections |-> NoSave], clicks |-> 0, route |-> "",
     error |-> FALSE]

\* no request at /auth/callback
NoCallback ==
    [pc |-> "none", is_login |-> "", user |-> NoUser,
     created_at |-> 0, last_sign_in_at |-> [defined |-> FALSE, val |-> 0],
     redirect |-> "", error |-> FALSE]

NoMore ==
    /\ remixed_techniques = {}
    /\ wizard = ClosedWizard
    /\ callback = NoCallback
NoData ==
    /\ session = NoUser
    /\ requirementsTable = {}
    /\ saved_results = {}
    /\ tabs = [t \in Tabs |-> ClosedTab]
    /\ NoMore

Init ==
    /\ allTechniques \in Catalogs
    /\ requirement = NullRequirement
    /\ result = [status |-> "idle", value |-> NoValue]
    /\ NoPages
    /\ NoData

\* a page that has loaded a requirement row calls getFilteredTechniques with it, once
Recommend(r) ==
    /\ result.status = "idle"
    /\ requirement' = Some(r)
    /\ result' = getFilteredTechniques(allTechniques, Some(r))
    /\ UNCHANGED <<allTechniques, callVars, dataVars, moreVars>>

\* a call with a null requirement: the early return
RecommendNull ==
    /\ result.status = "idle"
    /\ requirement' = NullRequirement
    /\ result' = getFilteredTechniques(allTechniques, NullRequirement)
    /\ UNCHANGED <<allTechniques, callVars, dataVars, moreVars>>

\* the page is left: its requirement and its techniques are dropped
LeavePage ==
    /\ result.status # "idle"
    /\ requirement' = NullRequirement
    /\ result' = [status |-> "idle", value |-> NoValue]
    /\ UNCHANGED <<allTechniques, callVars, dataVars, moreVars>>

Next ==
    \/ \E r \in Requirements : Recommend(r)
    \/ RecommendNull
    \/ LeavePage

Spec == Init /\ [][Next]_vars

(***************************************************************************)
(* Vocabulary of the properties.  The criteria below are written from the  *)
(* specification, over sets, and do not use the operators of the code.     *)
(***************************************************************************)
\* a call with a requirement has been made / has returned a value
Called == requirement.defined /\ result.status # "idle"
Returned == requirement.defined /\ result.status = "returned"
req == requirement.val

Entries == {allTechniques[k] : k \in 1..Len(allTechniques)}
EntriesOf(stage, name) == {t \in Entries : t.stage = stage /\ t.name = name}

\* the names in the list a value holds for a stage
NamesListed(value, stage) == {value[stage][i].name : i \in 1..Len(value[stage])}
Listed(stage, name) == name \in NamesListed(result.value, stage)

\* the tags of an optional array; an absent array has none
SetOf(o) == IF o.defined THEN {o.val[i] : i \in 1..Len(o.val)} ELSE {}
Selected(o) == SetOf(o) # {}

UpperCode(c) == IF c \in 97..122 THEN c - 32 ELSE c
SameIgnoringCase(a, b) ==
    Len(a) = Len(b) /\ \A i \in 1..Len(a) : UpperCode(a[i]) = UpperCode(b[i])

LenientIntersection(selection, tags) ==
    \/ SetOf(selection) = {}
    \/ SetOf(tags) = {}
    \/ SetOf(selection) \cap SetOf(tags) # {}

ProjectTypeCriterion(r, t) ==
    \/ ~r.project_type.defined
    \/ \E p \in SetOf(t.project_types) : SameIgnoringCase(p, r.project_type.val)

UserContextOf(r) == IF r.existing_users = Some(TRUE) THEN "existing" ELSE "new"
UserBaseCriterion(r, t) == ~t.user_base.defined \/ UserContextOf(r) \in SetOf(t.user_base)

OutcomeCriterion(r, t) == LenientIntersection(r.outcome, t.outcomes)
DeviceTypeCriterion(r, t) == LenientIntersection(r.device_type, t.device_types)
OutputTypeCriterion(r, t) ==
    \/ t.stage \in {"Discover", "Define", "Design"}
    \/ LenientIntersection(r.output_type, t.output_types)

AllFiveCriteria(r, t) ==
    /\ ProjectTypeCriterion(r, t)
    /\ UserBaseCriterion(r, t)
    /\ OutcomeCriterion(r, t)
    /\ DeviceTypeCriterion(r, t)
    /\ OutputTypeCriterion(r, t)

(***************************************************************************)
(* C1.  In every value a call returns, a name is in the list of a stage    *)
(* if and only if some catalog entry of that stage with that name meets    *)
(* all five criteria (entries that share a name count once).               *)
(***************************************************************************)
C1_InclusionIffAllFive ==
    Returned =>
        \A s \in StageKeys : \A n \in Names :
            Listed(s, n) <=> \E t \in EntriesOf(s, n) : AllFiveCriteria(req, t)

\* a call that listed one entry and left out another, for a requirement with a selection
C1_Witness ==
    /\ Returned
    /\ req # UnsetRequirement
    /\ \E t \in Entries : t.stage \in StageKeys /\ Listed(t.stage, t.name)
    /\ \E t \in Entries : t.stage \in StageKeys /\ ~Listed(t.stage, t.name)

(***************************************************************************)
(* C2.  Totality: every call with a requirement returns a map whose keys   *)
(* are exactly the five stages, each mapped to a list of {name, slug}.     *)
(* The call on a catalog entry without project_types, for a requirement    *)
(* that has a project_type, throws instead.                                *)
(***************************************************************************)
C2_Totality ==
    Called =>
        /\ result.status = "returned"
        /\ DOMAIN result.value = StageKeys
        /\ \A s \in StageKeys : result.value[s] \in Seq([name : Names, slug : Slugs])
(***************************************************************************)
(* C3.  Permissiveness on empty selections.  As stated (every catalog      *)
(* technique appears exactly once in the list of its stage when nothing    *)
(* is selected) it fails: with existing_users unset the user context is    *)
(* "new", and an entry whose user_base lacks "new" is left out.            *)
(***************************************************************************)
NoSelections(r) ==
    /\ ~Selected(r.output_type) /\ ~Selected(r.outcome) /\ ~Selected(r.device_type)
    /\ ~r.project_type.defined
    /\ ~r.existing_users.defined

TimesListed(stage, name) ==
    Cardinality({i \in 1..Len(result.value[stage]) : result.value[stage][i].name = name})

C3_EveryTechniqueOnce ==
    (Returned /\ NoSelections(req)) =>
        \A t \in Entries : t.stage \in StageKeys => TimesListed(t.stage, t.name) = 1

\* C3 as amended: when nothing is selected, every catalog technique of one of the five
\* stages whose user_base is absent or contains "new" is in the list of its stage
\* exactly once.
C3_EveryNewUserTechniqueOnce ==
    (Returned /\ NoSelections(req)) =>
        \A t \in Entries :
            (t.stage \in StageKeys /\ (~t.user_base.defined \/ "new" \in SetOf(t.user_base)))
                => TimesListed(t.stage, t.name) = 1

\* nothing selected, two entries of one stage share a name, and the name is listed
C3_Witness ==
    /\ Returned /\ NoSelections(req)
    /\ \E j, k \in 1..Len(allTechniques) :
          /\ j # k
          /\ allTechniques[j].stage = allTechniques[k].stage
          /\ allTechniques[j].name = allTechniques[k].name
          /\ allTechniques[j].stage \in StageKeys
          /\ TimesListed(allTechniques[j].stage, allTechniques[j].name) = 1

(***************************************************************************)
(* C4.  Unset or empty fields only make matching more permissive.  As      *)
(* stated, for each of the five fields, it fails for existing_users:       *)
(* unsetting it turns the user context from "existing" into "new".         *)
(***************************************************************************)
EmptyValues ==
    [output_type |-> {Undefined, Some(<<>>)},
     outcome |-> {Undefined, Some(<<>>)},
     device_type |-> {Undefined, Some(<<>>)},
     project_type |-> {Undefined},
     existing_users |-> {Null}]

\* the call on the requirement with field f replaced by v loses no listed name
NothingRemoved(f, v) ==
    LET cleared == getFilteredTechniques(allTechniques, Some([req EXCEPT ![f] = v]))
    IN  /\ cleared.status = "returned"
        /\ \A s \in StageKeys : NamesListed(result.value, s) \subseteq NamesListed(cleared.value, s)

C4_ClearingNeverRemoves ==
    Returned =>
        \A f \in DOMAIN EmptyValues : \A v \in EmptyValues[f] \ {req[f]} : NothingRemoved(f, v)

\* C4 as amended: replacing outputType, outcome, deviceType or projectType by its
\* empty or unset value never removes a technique from a stage list of the result.
C4_ClearingSelectionNeverRemoves ==
    Returned =>
        \A f \in {"output_type", "outcome", "device_type", "project_type"} :
            \A v \in EmptyValues[f] \ {req[f]} : NothingRemoved(f, v)

\* a call whose result gains a name when one of its selections is cleared
C4_Witness ==
    /\ Returned
    /\ \E f \in {"output_type", "outcome", "device_type", "project_type"} :
         \E v \in EmptyValues[f] :
            LET cleared == getFilteredTechniques(allTechniques, Some([req EXCEPT ![f] = v]))
            IN  /\ cleared.status = "returned"
                /\ \E s \in StageKeys :
                      NamesListed(cleared.value, s) \ NamesListed(result.value, s) # {}

(***************************************************************************)
(* C5.  The result for no selections is maximal.  As stated (each list     *)
(* returned for r is a sub-list of the list returned for the requirement   *)
(* with empty selections and projectType and existingUsers unset) it       *)
(* fails: for existing_users = true the entries for existing users are     *)
(* listed, and for the unset requirement they are not.                     *)
(***************************************************************************)
RECURSIVE IsSubList(_, _)
IsSubList(a, b) ==
    IF Len(a) = 0 THEN TRUE
    ELSE IF Len(b) = 0 THEN FALSE
    ELSE IF Head(a) = Head(b) THEN IsSubList(Tail(a), Tail(b))
    ELSE IsSubList(a, Tail(b))

\* the requirements without selections: tag selections unset or empty, no project type
Unselected(existing) ==
    {[output_type |-> e, outcome |-> e, device_type |-> e,
      project_type |-> Undefined, existing_users |-> existing] : e \in {Undefined, Some(<<>>)}}

C5_SubListOfUnset ==
    Returned =>
        \A u \in Unselected(Null) \ {req} :
            LET most == getFilteredTechniques(allTechniques, Some(u))
            IN  /\ most.status = "returned"
                /\ \A s \in StageKeys : IsSubList(result.value[s], most.value[s])

NamesUniqueIn(stage) ==
    \A j, k \in 1..Len(allTechniques) :
        (/\ allTechniques[j].stage = stage /\ allTechniques[k].stage = stage
         /\ allTechniques[j].name = allTechniques[k].name) => j = k

\* C5 as amended: for every requirement r and every stage, every name in the list
\* returned for r is in the list returned for the requirement whose tag selections are
\* empty, whose projectType is unset and whose existingUsers is that of r; and the list
\* for r is a sub-list of that list when no two catalog entries of the stage share a name.
C5_SubListOfUnsetSameUsers ==
    Returned =>
        \A u \in Unselected(req.existing_users) \ {req} :
            LET most == getFilteredTechniques(allTechniques, Some(u))
            IN  /\ most.status = "returned"
                /\ \A s \in StageKeys :
                      /\ NamesListed(result.value, s) \subseteq NamesListed(most.value, s)
                      /\ NamesUniqueIn(s) => IsSubList(result.value[s], most.value[s])

\* a call with a selection whose list for a stage is a proper, non-empty part of the
\* list for no selections
C5_Witness ==
    /\ Returned
    /\ ~NoSelections(req)
    /\ \E s \in StageKeys :
          LET most == getFilteredTechniques(allTechniques,
                        Some([UnsetRequirement EXCEPT !.existing_users = req.existing_users]))
          IN  /\ NamesUniqueIn(s)
              /\ Len(result.value[s]) > 0
              /\ Len(result.value[s]) < Len(most.value[s])
(***************************************************************************)
(* The criteria one at a time: for a catalog entry that is the only one    *)
(* of its name in its stage, being listed shows what the code made of a    *)
(* criterion once the other four hold.                                     *)
(***************************************************************************)
Alone(t) == t.stage \in StageKeys /\ EntriesOf(t.stage, t.name) = {t}
IsListed(t) == Listed(t.stage, t.name)
Disjoint(selection, tags) ==
    Selected(selection) /\ Selected(tags) /\ SetOf(selection) \cap SetOf(tags) = {}

(***************************************************************************)
(* C6.  Early-stage bypass: the lists of Discover, Define and Design do    *)
(* not depend on the requirement's output_type, and an early-stage entry   *)
(* with output types is listed for a requirement whose non-empty           *)
(* output_type shares no tag with it when the other four criteria hold.    *)
(***************************************************************************)
C6_EarlyStageBypass ==
    Returned =>
        /\ \A o \in RequirementValues.output_type \ {req.output_type} :
              LET other == getFilteredTechniques(allTechniques,
                                                 Some([req EXCEPT !.output_type = o]))
              IN  /\ other.status = "returned"
                  /\ \A s \in {"Discover", "Define", "Design"} :
                        other.value[s] = result.value[s]
        /\ \A t \in Entries :
              (/\ t.stage \in {"Discover", "Define", "Design"}
               /\ Disjoint(req.output_type, t.output_types)
               /\ ProjectTypeCriterion(req, t) /\ UserBaseCriterion(req, t)
               /\ OutcomeCriterion(req, t) /\ DeviceTypeCriterion(req, t))
                  => IsListed(t)

\* an early-stage entry listed although its output types and the selection are disjoint
C6_Witness ==
    /\ Returned
    /\ \E t \in Entries :
          /\ t.stage \in {"Discover", "Define", "Design"}
          /\ Disjoint(req.output_type, t.output_types)
          /\ Alone(t) /\ IsListed(t)

(***************************************************************************)
(* C7.  Late-stage gating: a Develop or Deliver entry with output types    *)
(* is left out for every requirement whose non-empty output_type shares    *)
(* no tag with it, whatever the other criteria; when the other four hold   *)
(* it is listed exactly when either set is empty or the two intersect.     *)
(***************************************************************************)
C7_LateStageGating ==
    Returned =>
        \A t \in Entries :
            (Alone(t) /\ t.stage \in {"Develop", "Deliver"}) =>
                /\ Disjoint(req.output_type, t.output_types) => ~IsListed(t)
                /\ (/\ ProjectTypeCriterion(req, t) /\ UserBaseCriterion(req, t)
                    /\ OutcomeCriterion(req, t) /\ DeviceTypeCriterion(req, t))
                      => (IsListed(t) <=>
                            LenientIntersection(req.output_type, t.output_types))

\* a late-stage entry left out only because its output types miss the selection
C7_Witness ==
    /\ Returned
    /\ \E t \in Entries :
          /\ Alone(t) /\ t.stage \in {"Develop", "Deliver"}
          /\ Disjoint(req.output_type, t.output_types)
          /\ ProjectTypeCriterion(req, t) /\ UserBaseCriterion(req, t)
          /\ OutcomeCriterion(req, t) /\ DeviceTypeCriterion(req, t)
          /\ ~IsListed(t)

(***************************************************************************)
(* C8.  Project-type match: once the other four criteria hold, an entry    *)
(* is listed exactly when the requirement has no project_type or the       *)
(* entry's project_types contain a value equal to it ignoring case.        *)
(***************************************************************************)
C8_ProjectTypeMatch ==
    Returned =>
        \A t \in Entries :
            (/\ Alone(t)
             /\ UserBaseCriterion(req, t) /\ OutcomeCriterion(req, t)
             /\ DeviceTypeCriterion(req, t) /\ OutputTypeCriterion(req, t))
                => (IsListed(t) <=>
                      (\/ ~req.project_type.defined
                       \/ \E p \in SetOf(t.project_types) :
                             SameIgnoringCase(p, req.project_type.val)))

\* project_types ["New"] listed for project_type "new"
C8_Witness ==
    /\ Returned
    /\ req.project_type = Some(str_new)
    /\ \E t \in Entries :
          Alone(t) /\ t.project_types = Some(<<str_New>>) /\ IsListed(t)

(***************************************************************************)
(* C9.  User-base match: the user context is "existing" when               *)
(* existing_users is true and "new" when it is false or null; once the     *)
(* other four criteria hold, an entry is listed exactly when it has no     *)
(* user_base or its user_base contains the user context.                   *)
(***************************************************************************)
C9_UserBaseMatch ==
    Returned =>
        \A t \in Entries :
            (/\ Alone(t)
             /\ ProjectTypeCriterion(req, t) /\ OutcomeCriterion(req, t)
             /\ DeviceTypeCriterion(req, t) /\ OutputTypeCriterion(req, t))
                => (IsListed(t) <=>
                      (\/ ~t.user_base.defined
                       \/ (IF req.existing_users = Some(TRUE) THEN "existing" ELSE "new")
                             \in SetOf(t.user_base)))

\* existing_users is null and an entry for existing users only is left out
C9_Witness ==
    /\ Returned
    /\ req.existing_users = Null
    /\ \E t \in Entries :
          Alone(t) /\ t.user_base = Some(<<"existing">>) /\ ~IsListed(t)

(***************************************************************************)
(* C10.  Lenient intersection for outcome and for device type: once the    *)
(* other four criteria hold, an entry is listed exactly when the           *)
(* requirement's selection is empty or unset, or the entry's set is        *)
(* empty, or the two share a tag.                                          *)
(***************************************************************************)
C10_LenientIntersection ==
    Returned =>
        \A t \in Entries :
            Alone(t) =>
                /\ (/\ ProjectTypeCriterion(req, t) /\ UserBaseCriterion(req, t)
                    /\ DeviceTypeCriterion(req, t) /\ OutputTypeCriterion(req, t))
                      => (IsListed(t) <=>
                            (\/ ~Selected(req.outcome)
                             \/ ~Selected(t.outcomes)
                             \/ SetOf(req.outcome) \cap SetOf(t.outcomes) # {}))
                /\ (/\ ProjectTypeCriterion(req, t) /\ UserBaseCriterion(req, t)
                    /\ OutcomeCriterion(req, t) /\ OutputTypeCriterion(req, t))
                      => (IsListed(t) <=>
                            (\/ ~Selected(req.device_type)
                             \/ ~Selected(t.device_types)
                             \/ SetOf(req.device_type) \cap SetOf(t.device_types) # {}))

\* two outcomes selected, the entry carries one of them, and it is listed
C10_Witness ==
    /\ Returned
    /\ Len(req.outcome.val) = 2
    /\ \E t \in Entries :
          /\ Alone(t) /\ Len(t.outcomes.val) = 1
          /\ SetOf(req.outcome) \cap SetOf(t.outcomes) # {}
          /\ IsListed(t)

(***************************************************************************)
(* C11.  Duplicate suppression: no stage list of a returned result holds   *)
(* two entries with the same name, also when the catalog has several       *)
(* entries of that name and stage that meet the criteria.                  *)
(***************************************************************************)
C11_NoDuplicateNames ==
    Returned =>
        \A s \in StageKeys :
            \A i, j \in 1..Len(result.value[s]) :
                result.value[s][i].name = result.value[s][j].name => i = j

\* two catalog entries of one name and stage meet the criteria, one is listed
C11_Witness ==
    /\ Returned
    /\ \E j, k \in 1..Len(allTechniques) :
          /\ j < k
          /\ allTechniques[j].name = allTechniques[k].name
          /\ allTechniques[j].stage = allTechniques[k].stage
          /\ allTechniques[j].stage \in StageKeys
          /\ AllFiveCriteria(req, allTechniques[j])
          /\ AllFiveCriteria(req, allTechniques[k])
          /\ Len(result.value[allTechniques[j].stage]) = 1

(***************************************************************************)
(* C12.  Order: every stage list of a returned result is an                *)
(* order-preserving sub-sequence of the catalog restricted to the entries  *)
(* of that stage.                                                          *)
(***************************************************************************)
RECURSIVE CatalogOfStage(_, _)
CatalogOfStage(catalog, stage) ==
    IF catalog = <<>> THEN <<>>
    ELSE IF Head(catalog).stage = stage
         THEN <<[name |-> Head(catalog).name, slug |-> Head(catalog).slug]>>
                 \o CatalogOfStage(Tail(catalog), stage)
         ELSE CatalogOfStage(Tail(catalog), stage)

C12_CatalogOrder ==
    Returned =>
        \A s \in StageKeys :
            IsSubList(result.value[s], CatalogOfStage(allTechniques, s))

\* a stage list with two entries, which the catalog holds in that order
C12_Witness ==
    /\ Returned
    /\ \E s \in StageKeys :
          /\ Len(result.value[s]) = 2
          /\ result.value[s][1] # result.value[s][2]
          /\ result.value[s] = CatalogOfStage(allTechniques, s)

(***************************************************************************)
(* C13.  First occurrence wins.  As stated: the entry listed under a name  *)
(* carries the slug of the earliest catalog entry of that stage and name.  *)
(* As the code has it: of the earliest such entry that meets the five      *)
(* criteria.                                                               *)
(***************************************************************************)
\* the positions of the catalog entries of a stage and name
Positions(stage, name) ==
    {k \in 1..Len(allTechniques) :
        allTechniques[k].stage = stage /\ allTechniques[k].name = name}
PassingPositions(stage, name) ==
    {k \in Positions(stage, name) : AllFiveCriteria(req, allTechniques[k])}
Earliest(positions) == CHOOSE k \in positions : \A m \in positions : k <= m

C13_EarliestEntryKept ==
    Returned =>
        \A s \in StageKeys :
            \A i \in 1..Len(result.value[s]) :
                /\ Positions(s, result.value[s][i].name) # {}
                /\ result.value[s][i].slug =
                     allTechniques[Earliest(Positions(s, result.value[s][i].name))].slug

C13_EarliestPassingEntryKept ==
    Returned =>
        \A s \in StageKeys :
            \A i \in 1..Len(result.value[s]) :
                /\ PassingPositions(s, result.value[s][i].name) # {}
                /\ result.value[s][i].slug =
                     allTechniques[Earliest(PassingPositions(s, result.value[s][i].name))].slug

\* two passing entries of one stage and name with different slugs: the first is kept
C13_Witness ==
    /\ Returned
    /\ \E s \in StageKeys : \E i \in 1..Len(result.value[s]) :
          \E j, k \in PassingPositions(s, result.value[s][i].name) :
              /\ j < k
              /\ allTechniques[j].slug # allTechniques[k].slug
              /\ result.value[s][i].slug = allTechniques[j].slug

(***************************************************************************)
(* C14.  De-duplication is per stage: a name carried by entries of two     *)
(* different stages that meet the criteria is listed under both stages,    *)
(* and an entry that meets the criteria is left out only when its name is  *)
(* already in the list of its own stage, that is when an earlier entry of  *)
(* its stage and name meets the criteria.                                  *)
(***************************************************************************)
C14_PerStageDeduplication ==
    Returned =>
        \A k \in 1..Len(allTechniques) :
            LET t == allTechniques[k]
            IN  (t.stage \in StageKeys /\ AllFiveCriteria(req, t)) =>
                    /\ Listed(t.stage, t.name)
                    /\ (\A j \in 1..(k - 1) :
                          ~(/\ allTechniques[j].stage = t.stage
                            /\ allTechniques[j].name = t.name
                            /\ AllFiveCriteria(req, allTechniques[j])))
                         => \E i \in 1..Len(result.value[t.stage]) :
                               result.value[t.stage][i] = [name |-> t.name, slug |-> t.slug]

\* one name listed under two stages
C14_Witness ==
    /\ Returned
    /\ \E s1, s2 \in StageKeys : \E n \in Names :
          s1 # s2 /\ Listed(s1, n) /\ Listed(s2, n)

(***************************************************************************)
(* C15.  Robustness to missing optional data, as stated: every call        *)
(* returns a result, and an entry that lacks one of its optional sets is   *)
(* listed once the criteria of the sets it does have hold.                 *)
(***************************************************************************)
PresentSetsHold(r, t) ==
    /\ t.project_types.defined => ProjectTypeCriterion(r, t)
    /\ t.user_base.defined => UserBaseCriterion(r, t)
    /\ t.outcomes.defined => OutcomeCriterion(r, t)
    /\ t.device_types.defined => DeviceTypeCriterion(r, t)
    /\ t.output_types.defined => OutputTypeCriterion(r, t)

C15_AbsentSetIsNoRestriction ==
    Called =>
        /\ result.status = "returned"
        /\ \A t \in Entries :
              (Alone(t) /\ PresentSetsHold(req, t)) => IsListed(t)

(***************************************************************************)
(* Calls side by side.  The result page and the project detail page each   *)
(* fetch a row, and in the continuation of the fetch pass it to            *)
(* getFilteredTechniques and keep the value in their state.  The call has  *)
(* no await, so it runs to completion; the pages interleave between their  *)
(* fetches.  The value of a call is an object: pages hold references into  *)
(* objects, and a page may change the object it holds.                     *)
(***************************************************************************)
\* the catalogs of SpecCalls: two entries, one field of the second one varies
CallCatalogs ==
    UNION {{WithCell(<<DefaultTechnique, DefaultTechnique>>, 2, f, v) :
               v \in TechniqueValues[f]} : f \in DOMAIN DefaultTechnique}

\* the rows of SpecCalls: project_type or existing_users set, or nothing set
CallRequirements ==
    {r \in OneFieldChanged({UnsetRequirement}) :
        r.output_type = Undefined /\ r.outcome = Undefined /\ r.device_type = Undefined}

\* one object shared by all calls, as if recommendations were a module-level constant
NewObject_shared(objs) == 1

\* const recommendations = { ... }: a reference no live object has
NewObject(objs) ==
    CHOOSE id \in 1..(Cardinality(DOMAIN objs) + 1) : id \notin DOMAIN objs

Store(objs, id, value) ==
    [i \in (DOMAIN objs) \cup {id} |-> IF i = id THEN value ELSE objs[i]]
Drop(objs, id) == [i \in (DOMAIN objs) \ {id} |-> objs[i]]

InitCalls ==
    /\ allTechniques \in CallCatalogs
    /\ requirement = NullRequirement
    /\ result = [status |-> "idle", value |-> NoValue]
    /\ NoPages
    /\ NoData

\* the effect starts: the row is requested, r is the row the fetch will deliver
OpenPage(c, r) ==
    /\ pages[c].phase = "closed"
    /\ pages' = [pages EXCEPT ![c].phase = "loading", ![c].response = Some(r)]
    /\ UNCHANGED <<allTechniques, requirement, result, objects, dataVars, moreVars>>

\* the fetch delivers an error (or no row): the page redirects to the dashboard
FetchFailed(c) ==
    /\ pages[c].phase = "loading"
    /\ pages' = [pages EXCEPT ![c] = ClosedPage]
    /\ UNCHANGED <<allTechniques, requirement, result, objects, dataVars, moreVars>>

\* a continuation whose call reverses the catalog in place and fills in the
\* row's outcome
FetchReturned_inPlace(c) ==
    /\ pages[c].phase = "loading"
    /\ LET data == Some([pages[c].response.val EXCEPT !.outcome = Some(<<>>)])
           filteredTechniques == getFilteredTechniques(allTechniques, data)
           id == NewObject(objects)
       IN  IF filteredTechniques.status = "returned"
           THEN /\ objects' = Store(objects, id, filteredTechniques.value)
                /\ pages' = [pages EXCEPT ![c].phase = "shown",
                                          ![c].response = NullRequirement,
                                          ![c].requirement = data,
                                          ![c].stageTechniques = id]
           ELSE /\ objects' = objects
                /\ pages' = [pages EXCEPT ![c].phase = "failed",
                                          ![c].response = NullRequirement,
                                          ![c].requirement = data]
    /\ allTechniques' = [k \in 1..Len(allTechniques) |->
                            allTechniques[Len(allTechniques) + 1 - k]]
    /\ UNCHANGED <<requirement, result, dataVars, moreVars>>

\* the fetch delivers the row: setRequirement(data), getFilteredTechniques(data),
\* setStageTechniques(filteredTechniques); a call that throws leaves stageTechniques
FetchReturned(c) ==
    /\ pages[c].phase = "loading"
    /\ LET data == pages[c].response
           filteredTechniques == getFilteredTechniques(allTechniques, data)
           id == NewObject(objects)
       IN  IF filteredTechniques.status = "returned"
           THEN /\ objects' = Store(objects, id, filteredTechniques.value)
                /\ pages' = [pages EXCEPT ![c].phase = "shown",
                                          ![c].response = NullRequirement,
                                          ![c].requirement = data,
                                          ![c].stageTechniques = id]
           ELSE /\ objects' = objects
                /\ pages' = [pages EXCEPT ![c].phase = "failed",
                                          ![c].response = NullRequirement,
                                          ![c].requirement = data]
    /\ UNCHANGED <<allTechniques, requirement, result, dataVars, moreVars>>

\* the holder of a value changes it: an entry is pushed onto one of its lists
EditResult(c, s) ==
    /\ pages[c].phase = "shown"
    /\ ~pages[c].edited
    /\ objects' = [objects EXCEPT ![pages[c].stageTechniques][s] =
                      Append(@, [name |-> "Card Sorting", slug |-> "card-sorting"])]
    /\ pages' = [pages EXCEPT ![c].edited = TRUE]
    /\ UNCHANGED <<allTechniques, requirement, result, dataVars, moreVars>>

\* the page is left: its state goes, and with it the only reference to its value
ClosePage(c) ==
    /\ pages[c].phase \in {"shown", "failed"}
    /\ objects' = Drop(objects, pages[c].stageTechniques)
    /\ pages' = [pages EXCEPT ![c] = ClosedPage]
    /\ UNCHANGED <<allTechniques, requirement, result, dataVars, moreVars>>

NextCalls ==
    \/ \E c \in Contexts, r \in CallRequirements : OpenPage(c, r)
    \/ \E c \in Contexts : FetchFailed(c)
    \/ \E c \in Contexts : FetchReturned(c)
    \/ \E c \in Contexts, s \in {"Discover", "Deliver"} : EditResult(c, s)
    \/ \E c \in Contexts : ClosePage(c)

SpecCalls == InitCalls /\ [][NextCalls]_vars

(***************************************************************************)
(* C16.  No side effects: no step changes the catalog, and the row a page  *)
(* passes to getFilteredTechniques is the row the fetch delivered and      *)
(* stays as it was for as long as the page holds it.                       *)
(***************************************************************************)
C16_NoSideEffects ==
    [][/\ allTechniques' = allTechniques
       /\ \A c \in Contexts :
             /\ (pages[c].phase = "loading" /\ pages'[c].phase \in {"shown", "failed"})
                   => pages'[c].requirement = pages[c].response
             /\ (pages[c].phase \in {"shown", "failed"} /\ pages'[c].phase # "closed")
                   => pages'[c].requirement = pages[c].requirement]_vars

\* both pages have made their call, over a catalog of two different entries
C16_Witness ==
    /\ allTechniques[1] # allTechniques[2]
    /\ \A c \in Contexts : pages[c].phase = "shown" /\ pages[c].requirement.defined

(***************************************************************************)
(* C17.  Independence of calls: two pages never hold the same object, and  *)
(* whatever the interleaving and whatever the other page did to the value  *)
(* it holds, the value of a page that did not change it is the value the   *)
(* call returns when it runs alone.                                        *)
(***************************************************************************)
C17_IndependentCalls ==
    /\ \A c, d \in Contexts :
          (c # d /\ pages[c].phase = "shown" /\ pages[d].phase = "shown")
              => pages[c].stageTechniques # pages[d].stageTechniques
    /\ \A c \in Contexts :
          (pages[c].phase = "shown" /\ ~pages[c].edited) =>
              /\ pages[c].stageTechniques \in DOMAIN objects
              /\ objects[pages[c].stageTechniques] =
                    getFilteredTechniques(allTechniques, pages[c].requirement).value

\* one page changed the value it holds; the other page, called with another row,
\* holds the value of its own call
C17_Witness ==
    \E c, d \in Contexts :
        /\ pages[c].phase = "shown" /\ pages[c].edited
        /\ pages[d].phase = "shown" /\ ~pages[d].edited
        /\ pages[c].requirement # pages[d].requirement
        /\ objects[pages[c].stageTechniques] #
              getFilteredTechniques(allTechniques, pages[c].requirement).value
        /\ objects[pages[d].stageTechniques] =
              getFilteredTechniques(allTechniques, pages[d].requirement).value

(***************************************************************************)
(* The data-access layer (supabaseClient) and the pages that use it.       *)
(* Every function first awaits auth.getUser() and then awaits its queries; *)
(* the session can change, and a query can fail, between two awaits.  The  *)
(* database applies the row level security policy to every query with the *)
(* session the query arrives with.  The tabs are used one at a time, so    *)
(* the calls of the data-access layer run one after another.               *)
(***************************************************************************)
\* a requirements row as the form writes it: no tag selected, a project type chosen
RequirementRow(id, user_id, project_type) ==
    [id |-> id, user_id |-> user_id, project_name |-> "Project",
     output_type |-> Some(<<>>), outcome |-> Some(<<>>), device_type |-> Some(<<>>),
     project_type |-> Some(project_type), existing_users |-> Some(FALSE)]

\* the catalogs of SpecData: the second entry is for old projects, for both, or has
\* no project_types
DataCatalogs ==
    {<<DefaultTechnique,
       [DefaultTechnique EXCEPT !.name = "Card Sorting", !.slug = "card-sorting",
                                !.project_types = v]>> :
        v \in {Undefined, Some(<<str_Old>>), Some(<<str_New, str_Old>>)}}

\* a policy that lets every session through
policy_public(uid, row) == TRUE

\* a policy that lets every signed-in user through
policy_authenticated(uid, row) == uid # NoUser

\* CREATE POLICY ... FOR ALL TO authenticated USING (auth.uid() = user_id)
\* WITH CHECK (auth.uid() = user_id)
policy(uid, row) == uid # NoUser /\ uid = row.user_id

\* the first select of saveOrUpdateResult with the two values of its filters swapped
existingResult_swapped(table, uid, requirement_id, user_id) ==
    {row \in table :
        row.requirement_id = user_id /\ row.user_id = requirement_id /\ policy(uid, row)}

\* from('saved_results').select('id').eq('requirement_id', ...).eq('user_id', ...)
existingResult(table, uid, requirement_id, user_id) ==
    {row \in table :
        row.requirement_id = requirement_id /\ row.user_id = user_id /\ policy(uid, row)}

\* the id the database gives a new saved_results row: one that no row has
newId(table, requirement_id, user_id) ==
    [requirement_id |-> requirement_id, user_id |-> user_id,
     copy |-> CHOOSE k \in 1..(Cardinality(table) + 1) :
                 /\ \A row \in table :
                       row.id # [requirement_id |-> requirement_id,
                                 user_id |-> user_id, copy |-> k]
                 /\ \A j \in 1..(k - 1) : \E row \in table :
                       row.id = [requirement_id |-> requirement_id,
                                 user_id |-> user_id, copy |-> j]]

\* dataToSave, with the id of the inserted row: project_type is not among its fields
dataToSave(id, user_id, r) ==
    [id |-> id, user_id |-> user_id, requirement_id |-> r.id,
     project_name |-> r.project_name,
     output_type |-> r.output_type, outcome |-> r.outcome,
     device_type |-> r.device_type, existing_users |-> r.existing_users]

\* projectData as Requirement: a field the row does not have reads as undefined
asRequirement(row) ==
    [f \in (DOMAIN row) \cup {"project_type"} |->
        IF f \in DOMAIN row THEN row[f] ELSE Undefined]

InitData ==
    /\ allTechniques \in DataCatalogs
    /\ requirement = NullRequirement
    /\ result = [status |-> "idle", value |-> NoValue]
    /\ NoPages
    /\ session = NoUser
    /\ \E project_type \in {str_new, str_old} :
          requirementsTable = {RequirementRow("r1", "u1", project_type),
                               RequirementRow("r2", "u2", str_old)}
    /\ saved_results = {}
    /\ tabs = [t \in Tabs |-> ClosedTab]
    /\ NoMore

\* a page that has just been navigated to and whose effect has started a call
Loading(page, op, rid, sid) ==
    [ClosedTab EXCEPT !.page = page, !.op = op, !.pc = "getUser",
                      !.rid = rid, !.sid = sid]
ToDashboard == Loading("dashboard", "fetchSavedResults", "", NoSaved)
ToDetail(sid) == Loading("detail", "fetchSavedResultById", "", sid)

\* the call is over and the page stays
Idle(tab) == [tab EXCEPT !.op = "none", !.pc = "idle", !.user = NoUser]

\* what the caller does with { data: null, error }
AfterError(tab) ==
    IF \/ /\ tab.op \in {"fetchRequirementById", "fetchSavedResultById"}
          /\ tab.page \in {"result", "detail", "edit"}
       \/ tab.op = "fetchRemixedTechniqueById" /\ tab.page = "portfolio"
    THEN ToDashboard
    ELSE [Idle(tab) EXCEPT !.error = TRUE]

OnlyTab(t) == \A o \in Tabs \ {t} : tabs[o].page = "none"

SignIn(u) ==
    /\ session = NoUser
    /\ session' = u
    /\ UNCHANGED <<allTechniques, requirement, result, callVars, moreVars,
                   requirementsTable, saved_results, tabs>>

SignOut ==
    /\ session # NoUser
    /\ session' = NoUser
    /\ UNCHANGED <<allTechniques, requirement, result, callVars, moreVars,
                   requirementsTable, saved_results, tabs>>

\* navigation to a page: its effect starts the fetch
Navigate(t, tab) ==
    /\ tabs[t].pc = "idle"
    /\ OnlyTab(t)
    /\ tabs' = [tabs EXCEPT ![t] = tab]
    /\ UNCHANGED <<allTechniques, requirement, result, callVars, moreVars,
                   session, requirementsTable, saved_results>>

OpenResultPage(t, rid) ==
    Navigate(t, Loading("result", "fetchRequirementById", rid, NoSaved))
OpenDashboard(t) == Navigate(t, ToDashboard)
OpenDetail(t, sid) == Navigate(t, ToDetail(sid))
OpenEdit(t, sid) == Navigate(t, Loading("edit", "fetchSavedResultById", "", sid))

CloseTab(t) ==
    /\ tabs[t].page # "none"
    /\ Navigate(t, ClosedTab)

\* ResultPage: saveOrUpdateResult(requirement) is called with the row the page holds
handleProceedToDashboard(t) ==
    /\ tabs[t].page = "result"
    /\ tabs[t].pc = "idle"
    /\ tabs[t].requirement # {}
    /\ tabs' = [tabs EXCEPT ![t].op = "saveOrUpdateResult", ![t].pc = "getUser",
                            ![t].error = FALSE]
    /\ UNCHANGED <<allTechniques, requirement, result, callVars, moreVars,
                   session, requirementsTable, saved_results>>

\* EditProjectPage: updateSavedResult(id, formData)
onSubmit(t) ==
    /\ tabs[t].page = "edit"
    /\ tabs[t].pc = "idle"
    /\ tabs[t].projects # {}
    /\ tabs' = [tabs EXCEPT ![t].op = "updateSavedResult", ![t].pc = "getUser",
                            ![t].error = FALSE]
    /\ UNCHANGED <<allTechniques, requirement, result, callVars, moreVars,
                   session, requirementsTable, saved_results>>

\* const { data: { user } } = await supabase.auth.getUser(); if (!user) return 401
firstQuery(tab) ==
    IF tab.op = "saveOrUpdateResult" THEN "select"
    ELSE IF tab.op = "deleteSavedResult" THEN "deleteTechniques"
    ELSE IF tab.op = "saveOrUpdateRemixedTechnique"
         THEN (IF tab.pid = NoSaved THEN "placeholder" ELSE "write")
    ELSE "query"

\* a function that goes on to its first query without looking at the user
getUserReturned_unchecked(t) ==
    /\ tabs[t].pc = "getUser"
    /\ tabs' = [tabs EXCEPT ![t] =
                  [@ EXCEPT !.user = session, !.pc = firstQuery(tabs[t])]]
    /\ UNCHANGED <<allTechniques, requirement, result, callVars, moreVars,
                   session, requirementsTable, saved_results>>

getUserReturned(t) ==
    /\ tabs[t].pc = "getUser"
    /\ tabs' = [tabs EXCEPT ![t] =
                  IF session = NoUser THEN AfterError(@)
                  ELSE [@ EXCEPT !.user = session, !.pc = firstQuery(tabs[t])]]
    /\ UNCHANGED <<allTechniques, requirement, result, callVars, moreVars,
                   session, requirementsTable, saved_results>>

\* a query comes back with an error
QueryFailed(t) ==
    /\ tabs[t].pc \in {"query", "select", "reselect", "insert",
                      "placeholder", "write", "deleteTechniques", "deleteProject"}
    /\ tabs' = [tabs EXCEPT ![t] = AfterError(@)]
    /\ UNCHANGED <<allTechniques, requirement, result, callVars, moreVars,
                   session, requirementsTable, saved_results>>

fetchRequirementById(t) ==
    /\ tabs[t].op = "fetchRequirementById" /\ tabs[t].pc = "query"
    /\ LET data == {row \in requirementsTable :
                       /\ row.id = tabs[t].rid /\ row.user_id = tabs[t].user
                       /\ policy(session, row)}
       IN  tabs' = [tabs EXCEPT ![t] =
                      IF data = {} THEN ToDashboard
                      ELSE [Idle(@) EXCEPT !.requirement = data]]
    /\ UNCHANGED <<allTechniques, requirement, result, callVars, moreVars,
                   session, requirementsTable, saved_results>>

fetchSavedResults(t) ==
    /\ tabs[t].op = "fetchSavedResults" /\ tabs[t].pc = "query"
    /\ LET data == {row \in saved_results :
                       row.user_id = tabs[t].user /\ policy(session, row)}
       IN  tabs' = [tabs EXCEPT ![t] = [Idle(@) EXCEPT !.projects = data]]
    /\ UNCHANGED <<allTechniques, requirement, result, callVars, moreVars,
                   session, requirementsTable, saved_results>>

\* the project detail page keeps an absent row as no project, the edit page redirects
fetchSavedResultById(t) ==
    /\ tabs[t].op = "fetchSavedResultById" /\ tabs[t].pc = "query"
    /\ LET data == {row \in saved_results :
                       /\ row.id = tabs[t].sid /\ row.user_id = tabs[t].user
                       /\ policy(session, row)}
       IN  tabs' = [tabs EXCEPT ![t] =
                      IF data = {} /\ @.page = "edit" THEN ToDashboard
                      ELSE [Idle(@) EXCEPT !.projects = data]]
    /\ UNCHANGED <<allTechniques, requirement, result, callVars, moreVars,
                   session, requirementsTable, saved_results>>

\* saveOrUpdateResult: the select of the existing row (maybeSingle)
saveOrUpdateResult_select(t) ==
    /\ tabs[t].op = "saveOrUpdateResult" /\ tabs[t].pc = "select"
    /\ LET r == CHOOSE row \in tabs[t].requirement : TRUE
           found == existingResult(saved_results, session, r.id, tabs[t].user)
       IN  tabs' = [tabs EXCEPT ![t] =
                      IF Cardinality(found) > 1 THEN AfterError(@)
                      ELSE IF found = {} THEN [@ EXCEPT !.pc = "insert"]
                      ELSE [@ EXCEPT !.pc = "reselect",
                                     !.sid = (CHOOSE row \in found : TRUE).id]]
    /\ UNCHANGED <<allTechniques, requirement, result, callVars, moreVars,
                   session, requirementsTable, saved_results>>

\* saveOrUpdateResult: the row exists, select('*').eq('id', existingResult.id).single(),
\* then router.push to the project
saveOrUpdateResult_existing(t) ==
    /\ tabs[t].op = "saveOrUpdateResult" /\ tabs[t].pc = "reselect"
    /\ LET data == {row \in saved_results :
                       row.id = tabs[t].sid /\ policy(session, row)}
       IN  tabs' = [tabs EXCEPT ![t] =
                      IF data = {} THEN AfterError(@) ELSE ToDetail(@.sid)]
    /\ UNCHANGED <<allTechniques, requirement, result, callVars, moreVars,
                   session, requirementsTable, saved_results>>

\* saveOrUpdateResult: no row exists, insert(dataToSave).select().single(), then
\* router.push to the project
saveOrUpdateResult_insert(t) ==
    /\ tabs[t].op = "saveOrUpdateResult" /\ tabs[t].pc = "insert"
    /\ LET r == CHOOSE row \in tabs[t].requirement : TRUE
           row == dataToSave(newId(saved_results, r.id, tabs[t].user), tabs[t].user, r)
       IN  /\ Cardinality(saved_results) < MaxSaved
           /\ IF policy(session, row)
              THEN /\ saved_results' = saved_results \cup {row}
                   /\ tabs' = [tabs EXCEPT ![t] = ToDetail(row.id)]
              ELSE /\ saved_results' = saved_results
                   /\ tabs' = [tabs EXCEPT ![t] = AfterError(@)]
    /\ UNCHANGED <<allTechniques, requirement, result, callVars, moreVars,
                   session, requirementsTable>>

\* updateSavedResult: update(updates).eq('id', id).eq('user_id', user.id).select().single()
updateSavedResult(t) ==
    /\ tabs[t].op = "updateSavedResult" /\ tabs[t].pc = "query"
    /\ LET matched == {row \in saved_results :
                          /\ row.id = tabs[t].sid /\ row.user_id = tabs[t].user
                          /\ policy(session, row)}
       IN  /\ saved_results' =
                (saved_results \ matched)
                   \cup {[row EXCEPT !.project_name = "Renamed"] : row \in matched}
           /\ tabs' = [tabs EXCEPT ![t] =
                         IF matched = {} THEN AfterError(@) ELSE ToDetail(@.sid)]
    /\ UNCHANGED <<allTechniques, requirement, result, callVars, moreVars,
                   session, requirementsTable>>

\* some call of the data-access layer has started and not yet returned
CallInFlight == \E t \in Tabs : tabs[t].pc # "idle"

\* the user signs in and out between calls, and stays who they are during a call
NextData ==
    \/ \E u \in Users : ~CallInFlight /\ SignIn(u)
    \/ ~CallInFlight /\ SignOut
    \/ \E t \in Tabs, q \in requirementsTable : OpenResultPage(t, q.id)
    \/ \E t \in Tabs : OpenDashboard(t)
    \/ \E t \in Tabs, row \in saved_results : OpenDetail(t, row.id)
    \/ \E t \in Tabs, row \in saved_results : OpenEdit(t, row.id)
    \/ \E t \in Tabs : CloseTab(t)
    \/ \E t \in Tabs : handleProceedToDashboard(t)
    \/ \E t \in Tabs : onSubmit(t)
    \/ \E t \in Tabs : getUserReturned(t)
    \/ \E t \in Tabs : QueryFailed(t)
    \/ \E t \in Tabs : fetchRequirementById(t)
    \/ \E t \in Tabs : fetchSavedResults(t)
    \/ \E t \in Tabs : fetchSavedResultById(t)
    \/ \E t \in Tabs : saveOrUpdateResult_select(t)
    \/ \E t \in Tabs : saveOrUpdateResult_existing(t)
    \/ \E t \in Tabs : saveOrUpdateResult_insert(t)
    \/ \E t \in Tabs : updateSavedResult(t)

SpecData == InitData /\ [][NextData]_vars

\* the session may also change while a call is in flight: the user signs out or in
\* in another window between two awaits of the call
NextSession ==
    \/ NextData
    \/ \E u \in Users : SignIn(u)
    \/ SignOut

\* one catalog and one project: the session is what varies
InitSession ==
    /\ InitData
    /\ allTechniques[2].project_types = Some(<<str_Old>>)
    /\ RequirementRow("r1", "u1", str_new) \in requirementsTable

SpecSession == InitSession /\ [][NextSession]_vars

C19_SameRecommendations ==
    \A row \in saved_results : \A q \in requirementsTable :
        q.id = row.requirement_id =>
            LET before == getFilteredTechniques(allTechniques, Some(q))
                after == getFilteredTechniques(allTechniques, Some(asRequirement(row)))
            IN  (before.status = "returned" /\ after.status = "returned") =>
                    \A stage \in StageKeys : after.value[stage] = before.value[stage]

(***************************************************************************)
(* C20.  saveOrUpdateResult is idempotent per requirement when calls run   *)
(* one after another: there is never more than one saved_results row for   *)
(* a requirement and user; a step of a call writes only when there is no   *)
(* such row, and then inserts exactly one; a call that returns a row       *)
(* leaves exactly one row for its requirement and user.  A call that ends  *)
(* with an error has written nothing.                                      *)
(***************************************************************************)
RowsFor(table, requirement_id, user_id) ==
    {row \in table : row.requirement_id = requirement_id /\ row.user_id = user_id}

C20_Idempotent ==
    [][/\ \A q \in requirementsTable, u \in Users :
             Cardinality(RowsFor(saved_results', q.id, u)) <= 1
       /\ \A t \in Tabs :
             (tabs[t].op = "saveOrUpdateResult" /\ tabs'[t].pc # tabs[t].pc) =>
                LET r == CHOOSE row \in tabs[t].requirement : TRUE
                    before == RowsFor(saved_results, r.id, tabs[t].user)
                    after == RowsFor(saved_results', r.id, tabs[t].user)
                IN  /\ before # {} => saved_results' = saved_results
                    /\ saved_results' # saved_results =>
                          /\ before = {}
                          /\ \E row \in after : saved_results' = saved_results \cup {row}
                    /\ tabs'[t].page = "detail" =>
                          /\ Cardinality(after) = 1
                          /\ \A row \in after : row.id = tabs'[t].sid]_vars

\* a later call: the select has found the one row of the requirement and user
C20_Witness ==
    \E t \in Tabs :
        /\ tabs[t].op = "saveOrUpdateResult" /\ tabs[t].pc = "reselect"
        /\ \E r \in tabs[t].requirement :
              /\ Cardinality(RowsFor(saved_results, r.id, tabs[t].user)) = 1
              /\ \A row \in RowsFor(saved_results, r.id, tabs[t].user) :
                    row.id = tabs[t].sid

(***************************************************************************)
(* C28.  Unknown stages: a returned result has the five stage keys and no  *)
(* other, and every entry listed under a key is the name and slug of a     *)
(* catalog entry whose stage is that key; so an entry of another stage is  *)
(* neither listed nor given a key.                                         *)
(***************************************************************************)
C28_OnlyFixedStages ==
    Returned =>
        /\ DOMAIN result.value = StageKeys
        /\ \A s \in StageKeys : \A i \in 1..Len(result.value[s]) :
              \E t \in Entries :
                  /\ t.stage = s
                  /\ result.value[s][i] = [name |-> t.name, slug |-> t.slug]

\* an entry of a stage outside the five meets all criteria of the call that returned
C28_Witness ==
    /\ Returned
    /\ \E t \in Entries : t.stage = OtherStage /\ AllFiveCriteria(req, t)

(***************************************************************************)
(* Two tabs at once.  Nothing in ResultPage or in saveOrUpdateResult keeps *)
(* a second tab from showing the same requirement and saving it while the  *)
(* first tab's call is between its select and its insert.                  *)
(***************************************************************************)
\* the result page is opened in this tab whatever the other tab shows
OpenAlongside(t, rid) ==
    /\ tabs[t].pc = "idle"
    /\ tabs' = [tabs EXCEPT ![t] =
                  Loading("result", "fetchRequirementById", rid, NoSaved)]
    /\ UNCHANGED <<allTechniques, requirement, result, callVars, moreVars,
                   session, requirementsTable, saved_results>>

NextRace ==
    \/ \E u \in Users : ~CallInFlight /\ SignIn(u)
    \/ ~CallInFlight /\ SignOut
    \/ \E t \in Tabs, q \in requirementsTable : OpenAlongside(t, q.id)
    \/ \E t \in Tabs : handleProceedToDashboard(t)
    \/ \E t \in Tabs : getUserReturned(t)
    \/ \E t \in Tabs : QueryFailed(t)
    \/ \E t \in Tabs : fetchRequirementById(t)
    \/ \E t \in Tabs : fetchSavedResults(t)
    \/ \E t \in Tabs : fetchSavedResultById(t)
    \/ \E t \in Tabs : saveOrUpdateResult_select(t)
    \/ \E t \in Tabs : saveOrUpdateResult_existing(t)
    \/ \E t \in Tabs : saveOrUpdateResult_insert(t)

SpecRace == InitSession /\ [][NextRace]_vars

(***************************************************************************)
(* C21.  Concurrent saves, as stated: whatever the interleaving of two     *)
(* saveOrUpdateResult calls for the same requirement and user, there is at *)
(* most one saved_results row for that requirement and user.               *)
(***************************************************************************)
C21_AtMostOneRow ==
    \A q \in requirementsTable, u \in Users :
        Cardinality(RowsFor(saved_results, q.id, u)) <= 1


(***************************************************************************)
(* Remixed techniques and the deletion of a project.  A remixed technique  *)
(* row carries the id of its project; the database keeps the foreign key   *)
(* remixed_techniques.project_id -> saved_results.id, which it checks      *)
(* without regard to the row level security policies.                      *)
(***************************************************************************)
\* no foreign key on remixed_techniques
referenced_never(techniques, id) == FALSE

\* Foreign Key: remixed_techniques.project_id -> saved_results.id
referenced(techniques, id) == \E x \in techniques : x.project_id = id

\* what the foreign key asks of a written project_id: null, or the id of a row
inForeignKey(projects, id) == id = NoSaved \/ \E row \in projects : row.id = id

\* the id the database gives a new remixed_techniques row: the smallest unused one
newTechniqueId(techniques) ==
    CHOOSE k \in 1..(Cardinality(techniques) + 1) :
        /\ \A x \in techniques : x.id # k
        /\ \A j \in 1..(k - 1) : \E x \in techniques : x.id = j

\* placeholderRequirement: a saved_results row of the caller with a generated id and
\* no requirement
placeholderRequirement(id, user_id) ==
    [id |-> id, user_id |-> user_id, requirement_id |-> "",
     project_name |-> "Standalone",
     output_type |-> Some(<<>>), outcome |-> Some(<<>>),
     device_type |-> Some(<<>>), existing_users |-> Undefined]

\* dataToSave of saveOrUpdateRemixedTechnique, without the id
techniqueToSave(user_id, project_id) ==
    [user_id |-> user_id, project_id |-> project_id, why |-> "Remixed"]

\* the technique page: its effect fetches the remixed technique of ?remixId, or else
\* the project of ?projectId, or else nothing
OpenTechnique(t, tid, pid) ==
    Navigate(t, IF tid # 0
                THEN [Loading("technique", "fetchRemixedTechniqueById", "", NoSaved)
                         EXCEPT !.tid = tid, !.pid = pid]
                ELSE IF pid # NoSaved
                THEN [Loading("technique", "fetchSavedResultById", "", pid)
                         EXCEPT !.pid = pid]
                ELSE [ClosedTab EXCEPT !.page = "technique"])

\* the portfolio page of a remixed technique
ToPortfolio(tid) ==
    [Loading("portfolio", "fetchRemixedTechniqueById", "", NoSaved) EXCEPT !.tid = tid]
OpenPortfolio(t, tid) == Navigate(t, ToPortfolio(tid))

OpenFullPortfolio(t) ==
    Navigate(t, Loading("full-portfolio", "fetchAllRemixedTechniquesForUser", "", NoSaved))

\* the two functions no page calls: a caller outside the pages
CallFetchRequirementsForUser(t) ==
    Navigate(t, Loading("caller", "fetchRequirementsForUser", "", NoSaved))
CallFetchRemixedTechniquesByProjectId(t, pid) ==
    Navigate(t, [Loading("caller", "fetchRemixedTechniquesByProjectId", "", NoSaved)
                    EXCEPT !.pid = pid])

\* onSaveAndPreview: saveOrUpdateRemixedTechnique({...data, id: remixedTechniqueId})
onSaveAndPreview(t) ==
    /\ tabs[t].page = "technique"
    /\ tabs[t].pc = "idle"
    /\ tabs' = [tabs EXCEPT ![t].op = "saveOrUpdateRemixedTechnique",
                            ![t].pc = "getUser", ![t].error = FALSE]
    /\ UNCHANGED <<allTechniques, requirement, result, callVars, moreVars,
                   session, requirementsTable, saved_results>>

\* ProjectDetailPage: deleteSavedResult(id)
handleDeleteProject(t) ==
    /\ tabs[t].page = "detail"
    /\ tabs[t].pc = "idle"
    /\ tabs[t].projects # {}
    /\ tabs' = [tabs EXCEPT ![t].op = "deleteSavedResult", ![t].pc = "getUser",
                            ![t].error = FALSE]
    /\ UNCHANGED <<allTechniques, requirement, result, callVars, moreVars,
                   session, requirementsTable, saved_results>>

\* select('*').eq('id', id).eq('user_id', user.id).maybeSingle(); the technique page
\* resets its form with the row, the portfolio page leaves when there is none
fetchRemixedTechniqueById(t) ==
    /\ tabs[t].op = "fetchRemixedTechniqueById" /\ tabs[t].pc = "query"
    /\ LET data == {x \in remixed_techniques :
                       /\ x.id = tabs[t].tid /\ x.user_id = tabs[t].user
                       /\ policy(session, x)}
       IN  tabs' = [tabs EXCEPT ![t] =
                      IF data = {}
                      THEN (IF @.page = "portfolio" THEN ToDashboard ELSE Idle(@))
                      ELSE [Idle(@) EXCEPT !.techniques = data,
                               !.pid = IF tabs[t].page = "technique"
                                       THEN (CHOOSE x \in data : TRUE).project_id
                                       ELSE @]]
    /\ UNCHANGED <<allTechniques, requirement, result, callVars, moreVars,
                   session, requirementsTable, saved_results>>

\* select('*, saved_results (project_name)').eq('user_id', user.id)
fetchAllRemixedTechniquesForUser(t) ==
    /\ tabs[t].op = "fetchAllRemixedTechniquesForUser" /\ tabs[t].pc = "query"
    /\ LET data == {x \in remixed_techniques :
                       x.user_id = tabs[t].user /\ policy(session, x)}
           joined == {row \in saved_results :
                         /\ \E x \in data : x.project_id = row.id
                         /\ policy(session, row)}
       IN  tabs' = [tabs EXCEPT ![t] =
                      [Idle(@) EXCEPT !.techniques = data, !.projects = joined]]
    /\ UNCHANGED <<allTechniques, requirement, result, callVars, moreVars,
                   session, requirementsTable, saved_results>>

\* select('*').eq('project_id', projectId).eq('user_id', user.id)
fetchRemixedTechniquesByProjectId(t) ==
    /\ tabs[t].op = "fetchRemixedTechniquesByProjectId" /\ tabs[t].pc = "query"
    /\ LET data == {x \in remixed_techniques :
                       /\ x.project_id = tabs[t].pid /\ x.user_id = tabs[t].user
                       /\ policy(session, x)}
       IN  tabs' = [tabs EXCEPT ![t] = [Idle(@) EXCEPT !.techniques = data]]
    /\ UNCHANGED <<allTechniques, requirement, result, callVars, moreVars,
                   session, requirementsTable, saved_results>>

\* from('requirements').select('*').eq('user_id', user.id)
fetchRequirementsForUser(t) ==
    /\ tabs[t].op = "fetchRequirementsForUser" /\ tabs[t].pc = "query"
    /\ LET data == {row \in requirementsTable :
                       row.user_id = tabs[t].user /\ policy(session, row)}
       IN  tabs' = [tabs EXCEPT ![t] = [Idle(@) EXCEPT !.requirement = data]]
    /\ UNCHANGED <<allTechniques, requirement, result, callVars, moreVars,
                   session, requirementsTable, saved_results>>

\* a save that writes the technique without a project when none was given
saveOrUpdateRemixedTechnique_noPlaceholder(t) ==
    /\ tabs[t].op = "saveOrUpdateRemixedTechnique" /\ tabs[t].pc = "placeholder"
    /\ tabs' = [tabs EXCEPT ![t].pc = "write"]
    /\ UNCHANGED <<allTechniques, requirement, result, callVars, moreVars,
                   session, requirementsTable, saved_results>>

\* saveOrUpdateRemixedTechnique without a project_id: the placeholder project is
\* inserted first; if (projectError) return { data: null, error: projectError }
saveOrUpdateRemixedTechnique_placeholder(t) ==
    /\ tabs[t].op = "saveOrUpdateRemixedTechnique" /\ tabs[t].pc = "placeholder"
    /\ LET row == placeholderRequirement(newId(saved_results, "", tabs[t].user),
                                         tabs[t].user)
       IN  /\ Cardinality(saved_results) < MaxSaved
           /\ IF policy(session, row)
              THEN /\ saved_results' = saved_results \cup {row}
                   /\ tabs' = [tabs EXCEPT ![t].pid = row.id, ![t].pc = "write"]
              ELSE /\ saved_results' = saved_results
                   /\ tabs' = [tabs EXCEPT ![t] = AfterError(@)]
    /\ UNCHANGED <<allTechniques, requirement, result, callVars, moreVars,
                   session, requirementsTable>>

\* what the technique page does with the saved row: setRemixedTechniqueId, then
\* router.push to its portfolio page
afterSave(tab, written) ==
    IF written = {} THEN AfterError(tab)
    ELSE ToPortfolio((CHOOSE x \in written : TRUE).id)

\* saveOrUpdateRemixedTechnique with an id:
\* update(dataToSave).eq('id', existingId).eq('user_id', user.id).select().single()
saveOrUpdateRemixedTechnique_update(t) ==
    /\ tabs[t].op = "saveOrUpdateRemixedTechnique" /\ tabs[t].pc = "write"
    /\ tabs[t].tid # 0
    /\ LET matched == {x \in remixed_techniques :
                          /\ x.id = tabs[t].tid /\ x.user_id = tabs[t].user
                          /\ policy(session, x)}
           to == techniqueToSave(tabs[t].user, tabs[t].pid)
           written == {[id |-> x.id, user_id |-> to.user_id,
                        project_id |-> to.project_id, why |-> to.why] : x \in matched}
           accepted == /\ \A x \in written : policy(session, x)
                       /\ inForeignKey(saved_results, tabs[t].pid)
       IN  /\ remixed_techniques' =
                IF accepted THEN (remixed_techniques \ matched) \cup written
                ELSE remixed_techniques
           /\ tabs' = [tabs EXCEPT ![t] =
                         afterSave(@, IF accepted THEN written ELSE {})]
    /\ UNCHANGED <<allTechniques, requirement, result, callVars, wizard, callback,
                   session, requirementsTable, saved_results>>

\* saveOrUpdateRemixedTechnique without an id: insert(dataToSave).select().single()
saveOrUpdateRemixedTechnique_insert(t) ==
    /\ tabs[t].op = "saveOrUpdateRemixedTechnique" /\ tabs[t].pc = "write"
    /\ tabs[t].tid = 0
    /\ Cardinality(remixed_techniques) < MaxRemixed
    /\ LET to == techniqueToSave(tabs[t].user, tabs[t].pid)
           x == [id |-> newTechniqueId(remixed_techniques), user_id |-> to.user_id,
                 project_id |-> to.project_id, why |-> "Draft"]
           accepted == /\ policy(session, x)
                       /\ inForeignKey(saved_results, tabs[t].pid)
       IN  /\ remixed_techniques' =
                IF accepted THEN remixed_techniques \cup {x} ELSE remixed_techniques
           /\ tabs' = [tabs EXCEPT ![t] = afterSave(@, IF accepted THEN {x} ELSE {})]
    /\ UNCHANGED <<allTechniques, requirement, result, callVars, wizard, callback,
                   session, requirementsTable, saved_results>>

\* deleteSavedResult: from('remixed_techniques').delete().eq('project_id', id)
\* .eq('user_id', user.id)
deleteSavedResult_techniques(t) ==
    /\ tabs[t].op = "deleteSavedResult" /\ tabs[t].pc = "deleteTechniques"
    /\ remixed_techniques' =
          {x \in remixed_techniques :
              ~(/\ x.project_id = tabs[t].sid /\ x.user_id = tabs[t].user
                /\ policy(session, x))}
    /\ tabs' = [tabs EXCEPT ![t].pc = "deleteProject"]
    /\ UNCHANGED <<allTechniques, requirement, result, callVars, wizard, callback,
                   session, requirementsTable, saved_results>>

\* deleteSavedResult: from('saved_results').delete().eq('id', id).eq('user_id', user.id);
\* the page then goes to the dashboard
deleteSavedResult_project(t) ==
    /\ tabs[t].op = "deleteSavedResult" /\ tabs[t].pc = "deleteProject"
    /\ LET matched == {row \in saved_results :
                          /\ row.id = tabs[t].sid /\ row.user_id = tabs[t].user
                          /\ policy(session, row)}
           refused == \E row \in matched : referenced(remixed_techniques, row.id)
       IN  /\ saved_results' = IF refused THEN saved_results ELSE saved_results \ matched
           /\ tabs' = [tabs EXCEPT ![t] = IF refused THEN AfterError(@) ELSE ToDashboard]
    /\ UNCHANGED <<allTechniques, requirement, result, callVars, moreVars,
                   session, requirementsTable>>

\* the remixed techniques, the deletion of projects, and a session that may change
\* between two awaits
\* the tab the user works in
RemixTabs == {"t1"}

NextRemix ==
    \/ \E u \in Users : SignIn(u)
    \/ SignOut
    \/ \E t \in RemixTabs, tid \in {0} \cup {x.id : x \in remixed_techniques},
          pid \in {NoSaved} \cup {row.id : row \in saved_results} :
          OpenTechnique(t, tid, pid)
    \/ \E t \in RemixTabs, x \in remixed_techniques : OpenPortfolio(t, x.id)
    \/ \E t \in RemixTabs : OpenFullPortfolio(t)
    \/ \E t \in RemixTabs, row \in saved_results : OpenDetail(t, row.id)
    \/ \E t \in RemixTabs : CallFetchRequirementsForUser(t)
    \/ \E t \in RemixTabs, row \in saved_results :
          CallFetchRemixedTechniquesByProjectId(t, row.id)
    \/ \E t \in RemixTabs : CloseTab(t)
    \/ \E t \in RemixTabs : onSaveAndPreview(t)
    \/ \E t \in RemixTabs : handleDeleteProject(t)
    \/ \E t \in RemixTabs : getUserReturned(t)
    \/ \E t \in RemixTabs : QueryFailed(t)
    \/ \E t \in RemixTabs : fetchSavedResults(t)
    \/ \E t \in RemixTabs : fetchSavedResultById(t)
    \/ \E t \in RemixTabs : fetchRemixedTechniqueById(t)
    \/ \E t \in RemixTabs : fetchAllRemixedTechniquesForUser(t)
    \/ \E t \in RemixTabs : fetchRemixedTechniquesByProjectId(t)
    \/ \E t \in RemixTabs : fetchRequirementsForUser(t)
    \/ \E t \in RemixTabs : saveOrUpdateRemixedTechnique_placeholder(t)
    \/ \E t \in RemixTabs : saveOrUpdateRemixedTechnique_update(t)
    \/ \E t \in RemixTabs : saveOrUpdateRemixedTechnique_insert(t)
    \/ \E t \in RemixTabs : deleteSavedResult_techniques(t)
    \/ \E t \in RemixTabs : deleteSavedResult_project(t)

SpecRemix == InitSession /\ [][NextRemix]_vars


(***************************************************************************)
(* The requirements wizard (RequirementsPageContent).  Each section has    *)
(* its own Save & Next button; the button of a section is disabled only    *)
(* while savingSectionIndex is that section.  A press runs                 *)
(* handleSaveAndNext with the requirementId of the render it was pressed   *)
(* in; the function awaits getUser and then its insert or update.          *)
(***************************************************************************)
\* the ids the database gives new requirements rows, in the order it gives them
requirementIds == <<"r3", "r4", "r5", "r6", "r7">>

newRequirementId(table) ==
    requirementIds[CHOOSE k \in 1..Len(requirementIds) :
                      /\ \A row \in table : row.id # requirementIds[k]
                      /\ \A j \in 1..(k - 1) :
                            \E row \in table : row.id = requirementIds[j]]

\* the wizard is the only page shown
OnlyWizard == \A t \in Tabs : tabs[t].page = "none"

\* the page is opened without ?id, or with the id of a requirements row
OpenWizard(rid) ==
    /\ ~wizard.open
    /\ OnlyWizard
    /\ wizard' = [ClosedWizard EXCEPT !.open = TRUE, !.requirementId = rid,
                                      !.isLoading = (rid # "")]
    /\ UNCHANGED <<allTechniques, requirement, result, callVars, dataVars,
                   remixed_techniques, callback>>

\* loadRequirement has returned: the row, if any, has filled the form
loadRequirement ==
    /\ wizard.open /\ wizard.isLoading
    /\ wizard' = [wizard EXCEPT !.isLoading = FALSE]
    /\ UNCHANGED <<allTechniques, requirement, result, callVars, dataVars,
                   remixed_techniques, callback>>

\* Save & Next of section i is pressed; the section's fields are valid or not
handleSaveAndNext(i, isValid) ==
    /\ wizard.open /\ ~wizard.isLoading /\ wizard.route = ""
    /\ wizard.savingSectionIndex # i
    /\ wizard.saves[i].pc = "idle"
    /\ wizard.clicks < MaxSaves
    /\ wizard' =
          IF isValid
          THEN [wizard EXCEPT !.savingSectionIndex = i, !.clicks = @ + 1,
                              !.saves[i] = [pc |-> "getUser",
                                            requirementId |-> wizard.requirementId,
                                            user |-> NoUser]]
          ELSE [wizard EXCEPT !.savingSectionIndex = NoSection, !.clicks = @ + 1]
    /\ UNCHANGED <<allTechniques, requirement, result, callVars, dataVars,
                   remixed_techniques, callback>>

\* catch: the toast; finally: setSavingSectionIndex(null)
saveFailed(w, i) ==
    [w EXCEPT !.saves[i] = NoSave, !.savingSectionIndex = NoSection, !.error = TRUE]

\* after the await: setRequirementId for an insert, the section is completed, the
\* last section goes on to the result page; finally: setSavingSectionIndex(null)
saveSucceeded(w, i, id) ==
    [w EXCEPT !.saves[i] = NoSave, !.savingSectionIndex = NoSection,
              !.requirementId = IF w.saves[i].requirementId = "" THEN id ELSE @,
              !.completedSections = @ \cup {i},
              !.route = IF i < Cardinality(sections) - 1 THEN @ ELSE "result"]

\* insertRequirement / updateRequirement: getUser; if (!user) return 401
saveGetUserReturned(i) ==
    /\ wizard.saves[i].pc = "getUser"
    /\ wizard' = IF session = NoUser THEN saveFailed(wizard, i)
                 ELSE [wizard EXCEPT !.saves[i].pc = "query",
                                     !.saves[i].user = session]
    /\ UNCHANGED <<allTechniques, requirement, result, callVars, dataVars,
                   remixed_techniques, callback>>

\* the insert or the update comes back with an error
saveQueryFailed(i) ==
    /\ wizard.saves[i].pc = "query"
    /\ wizard' = saveFailed(wizard, i)
    /\ UNCHANGED <<allTechniques, requirement, result, callVars, dataVars,
                   remixed_techniques, callback>>

\* insertRequirement: insert([{...requirement, user_id: user.id}]).select().single()
insertRequirement(i) ==
    /\ wizard.saves[i].pc = "query"
    /\ wizard.saves[i].requirementId = ""
    /\ LET row == RequirementRow(newRequirementId(requirementsTable),
                                 wizard.saves[i].user, str_new)
       IN  IF policy(session, row)
           THEN /\ requirementsTable' = requirementsTable \cup {row}
                /\ wizard' = saveSucceeded(wizard, i, row.id)
           ELSE /\ requirementsTable' = requirementsTable
                /\ wizard' = saveFailed(wizard, i)
    /\ UNCHANGED <<allTechniques, requirement, result, callVars, session,
                   saved_results, tabs, remixed_techniques, callback>>

\* updateRequirement: update(updates).eq('id', id).eq('user_id', user.id).select().single()
updateRequirement(i) ==
    /\ wizard.saves[i].pc = "query"
    /\ wizard.saves[i].requirementId # ""
    /\ LET matched == {row \in requirementsTable :
                          /\ row.id = wizard.saves[i].requirementId
                          /\ row.user_id = wizard.saves[i].user
                          /\ policy(session, row)}
       IN  /\ requirementsTable' =
                (requirementsTable \ matched)
                   \cup {[row EXCEPT !.project_name = "Edited"] : row \in matched}
           /\ wizard' = IF matched = {} THEN saveFailed(wizard, i)
                        ELSE saveSucceeded(wizard, i, wizard.saves[i].requirementId)
    /\ UNCHANGED <<allTechniques, requirement, result, callVars, session,
                   saved_results, tabs, remixed_techniques, callback>>

\* one visit of the wizard by a user who stays signed in
NextWizard ==
    \/ \E u \in Users : ~wizard.open /\ SignIn(u)
    \/ ~wizard.open /\ SignOut
    \/ \E rid \in {""} \cup {row.id : row \in requirementsTable} : OpenWizard(rid)
    \/ loadRequirement
    \/ \E i \in sections, isValid \in BOOLEAN : handleSaveAndNext(i, isValid)
    \/ \E i \in sections : saveGetUserReturned(i)
    \/ \E i \in sections : saveQueryFailed(i)
    \/ \E i \in sections : insertRequirement(i)
    \/ \E i \in sections : updateRequirement(i)

SpecWizard == InitSession /\ [][NextWizard]_vars

(***************************************************************************)
(* C27.  One wizard session, one row, as stated: whatever the order and    *)
(* the overlap of the Save & Next presses of one visit of the wizard, the  *)
(* visit has inserted at most one requirements row.                        *)
(***************************************************************************)
C27_AtMostOneRow ==
    Cardinality({row \in requirementsTable :
                    \E k \in 1..Len(requirementIds) : row.id = requirementIds[k]}) <= 1


(***************************************************************************)
(* Every data-access function together: the pages of one tab, the wizard,  *)
(* and a session that may change between two awaits of a call.             *)
(***************************************************************************)
\* the wizard is left when none of its saves is in flight
CloseWizard ==
    /\ wizard.open
    /\ \A i \in sections : wizard.saves[i].pc = "idle"
    /\ wizard' = ClosedWizard
    /\ UNCHANGED <<allTechniques, requirement, result, callVars, dataVars,
                   remixed_techniques, callback>>

\* the writes the tables show: the rows inserted (the requirements rows of the
\* wizard, the saved_results rows, the remixed_techniques rows) and the requirements
\* and saved_results rows updated
WithinBudget ==
    Cardinality({row \in requirementsTable :
                    \E k \in 1..Len(requirementIds) : row.id = requirementIds[k]})
       + Cardinality({row \in requirementsTable : row.project_name = "Edited"})
       + Cardinality(saved_results)
       + Cardinality({row \in saved_results : row.project_name = "Renamed"})
       + Cardinality(remixed_techniques) <= MaxRows

NextOwner ==
    \/ ~wizard.open /\ NextRemix /\ WithinBudget'
    \/ \E u \in Users : SignIn(u)
    \/ SignOut
    \/ \E t \in RemixTabs, q \in requirementsTable :
          ~wizard.open /\ OpenResultPage(t, q.id)
    \/ \E t \in RemixTabs, row \in saved_results : ~wizard.open /\ OpenEdit(t, row.id)
    \/ \E t \in RemixTabs : handleProceedToDashboard(t)
    \/ \E t \in RemixTabs : onSubmit(t)
    \/ \E t \in RemixTabs : fetchRequirementById(t)
    \/ \E t \in RemixTabs : saveOrUpdateResult_select(t)
    \/ \E t \in RemixTabs : saveOrUpdateResult_existing(t)
    \/ \E t \in RemixTabs : saveOrUpdateResult_insert(t) /\ WithinBudget'
    \/ \E t \in RemixTabs : updateSavedResult(t) /\ WithinBudget'
    \/ \E rid \in {""} \cup {row.id : row \in requirementsTable} : OpenWizard(rid)
    \/ loadRequirement
    \/ \E i \in sections, isValid \in BOOLEAN :
          /\ \A j \in sections : wizard.saves[j].pc = "idle"
          /\ handleSaveAndNext(i, isValid)
    \/ \E i \in sections : saveGetUserReturned(i)
    \/ \E i \in sections : saveQueryFailed(i)
    \/ \E i \in sections : insertRequirement(i) /\ WithinBudget'
    \/ \E i \in sections : updateRequirement(i) /\ WithinBudget'
    \/ CloseWizard

SpecOwner == InitSession /\ [][NextOwner]_vars


C23_PlaceholderFirst ==
    [][/\ \A t \in Tabs :
             (/\ tabs[t].op = "saveOrUpdateRemixedTechnique"
              /\ tabs[t].pc = "placeholder"
              /\ tabs'[t] # tabs[t]) =>
                 /\ remixed_techniques' = remixed_techniques
                 /\ \/ \E row \in saved_results' \ saved_results :
                          /\ saved_results' = saved_results \cup {row}
                          /\ row.user_id = tabs[t].user
                          /\ tabs'[t].pid = row.id
                          /\ tabs'[t].pc = "write"
                    \/ /\ saved_results' = saved_results
                       /\ tabs'[t].pc = "idle" /\ tabs'[t].error
       /\ \A x \in remixed_techniques' \ remixed_techniques :
             /\ x.project_id # NoSaved
             /\ \E t \in Tabs : /\ tabs[t].op = "saveOrUpdateRemixedTechnique"
                                /\ tabs[t].pc = "write"
                                /\ x.project_id = tabs[t].pid]_vars

\* a remixed technique whose project is a placeholder project of its owner
C23_Witness ==
    \E x \in remixed_techniques : \E row \in saved_results :
        /\ row.id = x.project_id
        /\ row.project_name = "Standalone"
        /\ row.user_id = x.user_id

QueryPcs ==
    {"query", "select", "reselect", "insert",
     "placeholder", "write", "deleteTechniques", "deleteProject"}

C25_NoUserNoQuery ==
    [][/\ \A t \in Tabs :
             (tabs[t].pc = "getUser" /\ session = NoUser /\ tabs'[t] # tabs[t]) =>
                 /\ tabs'[t].pc \notin QueryPcs
                 /\ \/ tabs'[t].pc = "idle" /\ tabs'[t].error
                    \/ tabs'[t] = ToDashboard
                 /\ tabs'[t].requirement \subseteq tabs[t].requirement
                 /\ tabs'[t].projects \subseteq tabs[t].projects
                 /\ tabs'[t].techniques \subseteq tabs[t].techniques
                 /\ UNCHANGED <<requirementsTable, saved_results, remixed_techniques>>
       /\ \A i \in sections :
             (/\ wizard.saves[i].pc = "getUser" /\ session = NoUser
              /\ wizard'.saves[i] # wizard.saves[i]) =>
                 /\ wizard'.saves[i].pc = "idle" /\ wizard'.error
                 /\ wizard'.requirementId = wizard.requirementId
                 /\ UNCHANGED <<requirementsTable, saved_results, remixed_techniques>>]_vars

\* nobody is signed in; a deletion was asked for on the page of a project and has
\* ended with an error; the project is still there
C25_Witness ==
    \E t \in Tabs :
        /\ session = NoUser
        /\ tabs[t].page = "detail" /\ tabs[t].pc = "idle" /\ tabs[t].error
        /\ tabs[t].projects # {}
        /\ \E row \in saved_results : row.id = tabs[t].sid


(***************************************************************************)
(* Signing in with a provider: handleSocialLogin of the auth form sends    *)
(* the browser to the provider, the provider sends it back to              *)
(* /auth/callback, and the route handler GET exchanges the code for a      *)
(* session and decides where to redirect.  Times are in milliseconds.      *)
(***************************************************************************)
\* Math.abs(createdAt.getTime() - lastSignInAt.getTime()) < 5000
newUserWindow == 5000

\* the account times explored: around the window
Times == {0, 1, newUserWindow - 1, newUserWindow, newUserWindow + 1}
LastSignInTimes ==
    {[defined |-> FALSE, val |-> 0]} \cup {[defined |-> TRUE, val |-> at] : at \in Times}

\* the values of ?is_login explored
IsLoginParams == {"true", "false", ""}

\* the redirects of the route handler
InvalidRequest == "/?error=Invalid authentication request"
AuthenticationFailed == "/auth/callback?error=Authentication failed"
NotRegistered == "/?error=This account is not registered"
Dashboard == "/dashboard"

abs(n) == IF n < 0 THEN 0 - n ELSE n

\* lastSignInAt is createdAt when the user has no last_sign_in_at
isNewUser(created_at, last_sign_in_at) ==
    LET lastSignInAt == IF last_sign_in_at.defined THEN last_sign_in_at.val
                        ELSE created_at
    IN  abs(created_at - lastSignInAt) < newUserWindow

\* handleSocialLogin: signInWithOAuth gives the url of the provider, with
\* redirectTo /auth/callback and ?is_login=true in login mode, or an error
handleSocialLogin(mode, failed) ==
    /\ callback.pc = "none"
    /\ callback' = IF failed THEN [NoCallback EXCEPT !.error = TRUE]
                   ELSE [NoCallback EXCEPT !.pc = "provider",
                            !.is_login = IF mode = "login" THEN "true" ELSE ""]
    /\ UNCHANGED <<allTechniques, requirement, result, callVars, dataVars,
                   remixed_techniques, wizard>>

\* GET: the request arrives, from the provider or typed in; without a code it is
\* answered at once
GET(code, is_login) ==
    /\ callback.pc \in {"none", "provider"}
    /\ callback.pc = "provider" => is_login = callback.is_login
    /\ callback' = IF code
                   THEN [NoCallback EXCEPT !.pc = "exchange", !.is_login = is_login]
                   ELSE [NoCallback EXCEPT !.pc = "done", !.is_login = is_login,
                                           !.redirect = InvalidRequest]
    /\ UNCHANGED <<allTechniques, requirement, result, callVars, dataVars,
                   remixed_techniques, wizard>>

\* exchangeCodeForSession has answered: an error, or the session of the user; then
\* the test of isLogin and isNewUser
exchangeCodeForSession(failed, u, created_at, last_sign_in_at) ==
    /\ callback.pc = "exchange"
    /\ IF failed
       THEN /\ callback' = [callback EXCEPT !.pc = "done",
                                            !.redirect = AuthenticationFailed]
            /\ session' = session
       ELSE /\ session' = u
            /\ callback' =
                  [callback EXCEPT
                      !.user = u, !.created_at = created_at,
                      !.last_sign_in_at = last_sign_in_at,
                      !.pc = IF /\ callback.is_login = "true"
                                /\ isNewUser(created_at, last_sign_in_at)
                             THEN "signOut" ELSE "done",
                      !.redirect = IF /\ callback.is_login = "true"
                                      /\ isNewUser(created_at, last_sign_in_at)
                                   THEN @ ELSE Dashboard]
    /\ UNCHANGED <<allTechniques, requirement, result, callVars, requirementsTable,
                   saved_results, tabs, remixed_techniques, wizard>>

\* a handler that redirects the new user without signing out
signOut_skipped ==
    /\ callback.pc = "signOut"
    /\ callback' = [callback EXCEPT !.pc = "done", !.redirect = NotRegistered]
    /\ UNCHANGED <<allTechniques, requirement, result, callVars, dataVars,
                   remixed_techniques, wizard>>

\* await supabase.auth.signOut(); then the redirect with the error
signOut ==
    /\ callback.pc = "signOut"
    /\ session' = NoUser
    /\ callback' = [callback EXCEPT !.pc = "done", !.redirect = NotRegistered]
    /\ UNCHANGED <<allTechniques, requirement, result, callVars, requirementsTable,
                   saved_results, tabs, remixed_techniques, wizard>>

\* the browser has followed the redirect
followRedirect ==
    /\ callback.pc = "done"
    /\ callback' = NoCallback
    /\ UNCHANGED <<allTechniques, requirement, result, callVars, dataVars,
                   remixed_techniques, wizard>>

NextAuth ==
    \/ \E mode \in {"login", "signup"}, failed \in BOOLEAN :
          handleSocialLogin(mode, failed)
    \/ \E code \in BOOLEAN, is_login \in IsLoginParams : GET(code, is_login)
    \/ \E failed \in BOOLEAN, u \in Users, created_at \in Times,
          last_sign_in_at \in LastSignInTimes :
          exchangeCodeForSession(failed, u, created_at, last_sign_in_at)
    \/ signOut
    \/ followRedirect
    \/ callback.pc = "none" /\ SignOut

SpecAuth == InitSession /\ [][NextAuth]_vars

(***************************************************************************)
(* C26.  A first-time account at login: when a request with is_login=true  *)
(* has exchanged its code for the session of a user whose creation time    *)
(* and last sign-in are less than 5 seconds apart, the request ends with   *)
(* the redirect to the login page with the 'not registered' error and with *)
(* nobody signed in; the redirect is decided only once the user is signed  *)
(* out.                                                                    *)
(***************************************************************************)
FirstTimeAccount ==
    /\ callback.user \in Users
    /\ callback.last_sign_in_at.defined
    /\ abs(callback.created_at - callback.last_sign_in_at.val) < newUserWindow

====
